---- MODULE Spec2Model ----
(***************************************************************************)
(* Model of the re-planning coordination in src/calander.py (CalendarApp). *)
(*                                                                         *)
(* One Tk UI thread runs the handlers (refresh_events, _check_and_replan,  *)
(* _shuffle_tasks, _optimize_schedule and the root.after callbacks); each  *)
(* handler is one atomic action.  Background threads (replan_async,        *)
(* shuffle_async, optimize_loop) advance one statement group at a time and *)
(* talk to the UI thread only through the root.after queue.                *)
(* Time is the wall clock read by datetime.now(), in whole seconds.        *)
(***************************************************************************)
EXTENDS Integers, Sequences, FiniteSets, TLC

\* ---------------------------------------------------------------- bounds
MaxTime == 6        \* the clock stops advancing here
MaxWorkers == 2     \* threads started by _check_and_replan, _shuffle_tasks
MaxTicks == 1       \* iterations of optimize_loop
MaxEvents == 3      \* events of one day handed to _compute_lanes
MaxClock == 2       \* the instants of a day are 0..MaxClock
MaxHalfHours == 4   \* a morning in half hours: 0 is 09:00, 4 is 11:00

\* ------------------------------------------------------ program constants
replan_cooldown == 5

\* timedelta(minutes=30) of _draw_timed_event: one unit of the day's clock
min_duration == 1

\* optimizer.replan_on_event_change as set in __init__.  add_to_calendar sets
\* it to False only around a refresh_events(skip_replan=True) and restores it
\* in the same handler, so every refresh that reads it with skip_replan=False
\* reads True.
replan_on_event_change == TRUE

\* --------------------------------------------------------------- inputs
\* A listing of the week: one flag per event, TRUE when its summary starts
\* with "[Task]".
Listings == {<<FALSE>>, <<FALSE, TRUE>>}

\* The tasks the task manager can hold.
Tasks == {"t1"}

\* optimizer.analyze_capacity(days=3): no critical warning, at least one
\* critical warning, or the call raising.
CapOutcomes == {"normal", "critical", "raise"}

\* result["status"] of optimizer.auto_replan / shuffle_tasks
Statuses == {"success", "no_tasks", "error"}

VARIABLES
    now,                \* datetime.now()
    is_replanning,      \* self._is_replanning
    last_replan_time,   \* self._last_replan_time: <<>> is None, <<t>> a time
    events,             \* self.events
    scheduled_tasks,    \* the scheduler.tasks with scheduled_start set
    workers,            \* the threads started so far, in start order
    ui_queue,           \* root.after(0, ...) callbacks not yet run, FIFO
    ui,                 \* what the UI thread is inside of
    ticker,             \* position of the optimize_loop thread
    ticks,              \* iterations of optimize_loop so far
    completed_at,       \* observer: when _is_replanning was last cleared
    burst,              \* observer: the current burst of trigger calls
    observed,           \* observer: per thread, its callbacks run so far
    probe,              \* which of completed_at and burst is switched on
    loader,             \* the load_client thread of _load_ai_client_async
    packer,             \* one run of _compute_lanes
    provider_errors,    \* observer: error boxes of failed provider calls,
                        \* counted modulo 2
    updater             \* one run of ApolloUpdater.run_update

vars == <<now, is_replanning, last_replan_time, events, scheduled_tasks,
          workers, ui_queue, ui, ticker, ticks, completed_at, burst,
          observed, probe, loader, packer, provider_errors, updater>>

coordinator == <<is_replanning, last_replan_time, workers, burst>>

\* ------------------------------------------------------------- helpers
\* threading.Thread(target=..., daemon=True).start(): the thread is about to
\* call the optimizer.
NewWorker(kind) == [kind |-> kind, pc |-> "call", result |-> "pending"]

\* What the observer has seen of a thread's callbacks on the UI thread.
NoOutcome == [cleared |-> 0, delivered |-> <<>>]

\* root.after(0, f): op names f, run the thread that queued it; skip is the
\* skip_replan argument of a queued refresh_events, status the result status
\* carried by a queued _handle_shuffle_result.
Callback(op, run, skip, status) ==
    [op |-> op, run |-> run, skip |-> skip, status |-> status]

ReplanWorkers == {i \in DOMAIN workers : workers[i].kind = "replan"}

ClearQueued(i) ==
    \E k \in DOMAIN ui_queue :
        ui_queue[k].op = "clear_flag" /\ ui_queue[k].run = i

\* A re-plan is Running from its dispatch until its flag-clearing callback ran.
Running ==
    {i \in ReplanWorkers :
        workers[i].pc = "call" \/ ClearQueued(i)}

\* Optimizer re-planning runs in flight: threads inside auto_replan or
\* shuffle_tasks.
InOptimizer == {i \in DOMAIN workers : workers[i].pc = "call"}

\* The UI thread is inside optimizer.optimize_continuously(), called by
\* _optimize_schedule without a thread.
UiInOptimizer == ui = "optimizing"

\* ------------------------------------------------ _check_and_replan
\* any(ev.get("summary", "").startswith("[Task]") for ev in events)
has_task_events(evs) == \E i \in DOMAIN evs : evs[i]

\* any(t.scheduled_start for t in self.scheduler.tasks)
has_scheduled_tasks == scheduled_tasks # {}

\* Variant of InCooldown: the window is one second short.
InCooldownShort ==
    /\ last_replan_time # <<>>
    /\ now - last_replan_time[1] < replan_cooldown - 1

\* Variant of InCooldown: the elapsed time is taken in whole minutes.
InCooldownMinutes ==
    /\ last_replan_time # <<>>
    /\ (now - last_replan_time[1]) \div 60 < replan_cooldown

\* the cooldown test: _last_replan_time set and less than the cooldown ago
InCooldown ==
    /\ last_replan_time # <<>>
    /\ now - last_replan_time[1] < replan_cooldown

\* Variant of should_replan: only a critical warning qualifies.
should_replan_critical_only(evs, cap) == cap = "critical"

\* Variant of should_replan: whatever passed the earlier tests qualifies.
should_replan_always(evs, cap) == TRUE

\* critical or (has_task_events and not self._is_replanning)
should_replan(evs, cap) ==
    cap = "critical" \/ (has_task_events(evs) /\ ~is_replanning)

\* Variant of CheckOutcome: a critical warning passes the cooldown.
CheckOutcomeCriticalBypass(evs, cap) ==
    IF is_replanning THEN "AlreadyRunning"
    ELSE IF InCooldown /\ cap # "critical" THEN "Cooldown"
    ELSE IF ~has_task_events(evs) /\ ~has_scheduled_tasks THEN "NothingToReplan"
    ELSE IF cap = "raise" THEN "CheckError"
    ELSE IF should_replan(evs, cap) THEN "Accepted"
    ELSE "NotQualified"

\* Variant of CheckOutcome: severity is looked at before the test that there
\* is something to replan.
CheckOutcomeSeverityFirst(evs, cap) ==
    IF is_replanning THEN "AlreadyRunning"
    ELSE IF InCooldown THEN "Cooldown"
    ELSE IF cap = "critical" THEN "Accepted"
    ELSE IF ~has_task_events(evs) /\ ~has_scheduled_tasks THEN "NothingToReplan"
    ELSE IF cap = "raise" THEN "CheckError"
    ELSE IF should_replan(evs, cap) THEN "Accepted"
    ELSE "NotQualified"

\* The return path _check_and_replan takes, its tests in source order.
CheckOutcome(evs, cap) ==
    IF is_replanning THEN "AlreadyRunning"
    ELSE IF InCooldown THEN "Cooldown"
    ELSE IF ~has_task_events(evs) /\ ~has_scheduled_tasks THEN "NothingToReplan"
    ELSE IF cap = "raise" THEN "CheckError"
    ELSE IF should_replan(evs, cap) THEN "Accepted"
    ELSE "NotQualified"

\* The burst observer: a burst is opened by a trigger call and holds every
\* later call made less than one cooldown window after that first call.
NoteCall(accepted) ==
    LET a == IF accepted THEN 1 ELSE 0 IN
    IF probe # "burst" THEN burst
    ELSE IF burst.start = <<>> \/ now - burst.start[1] >= replan_cooldown
    THEN [start |-> <<now>>, accepts |-> a, rejected |-> ~accepted]
    ELSE [burst EXCEPT !.accepts = @ + a, !.rejected = @ \/ ~accepted]

\* Variant of CheckAndReplan: the flag is not set on acceptance.
CheckAndReplanNoFlag(evs, cap) ==
    LET r == CheckOutcome(evs, cap) IN
    /\ r = "Accepted" => Len(workers) < MaxWorkers
    /\ IF r = "Accepted"
       THEN /\ is_replanning' = is_replanning
            /\ last_replan_time' = <<now>>
            /\ workers' = Append(workers, NewWorker("replan"))
       ELSE /\ is_replanning' = IF r = "CheckError" THEN FALSE ELSE is_replanning
            /\ UNCHANGED <<last_replan_time, workers>>
    /\ burst' = NoteCall(r = "Accepted")

\* Variant of CheckAndReplan: the timestamp is written as soon as the
\* running and cooldown tests are passed, before the request is accepted.
CheckAndReplanStampsEarly(evs, cap) ==
    LET r == CheckOutcome(evs, cap) IN
    /\ r = "Accepted" => Len(workers) < MaxWorkers
    /\ last_replan_time' = IF r \in {"AlreadyRunning", "Cooldown"}
                           THEN last_replan_time ELSE <<now>>
    /\ IF r = "Accepted"
       THEN /\ is_replanning' = TRUE
            /\ workers' = Append(workers, NewWorker("replan"))
       ELSE /\ is_replanning' = IF r = "CheckError" THEN FALSE ELSE is_replanning
            /\ UNCHANGED workers
    /\ burst' = NoteCall(r = "Accepted")

CheckAndReplan(evs, cap) ==
    LET r == CheckOutcome(evs, cap) IN
    /\ r = "Accepted" => Len(workers) < MaxWorkers
    /\ IF r = "Accepted"
       THEN /\ is_replanning' = TRUE
            /\ last_replan_time' = <<now>>
            /\ workers' = Append(workers, NewWorker("replan"))
       ELSE /\ is_replanning' = IF r = "CheckError" THEN FALSE ELSE is_replanning
            /\ UNCHANGED <<last_replan_time, workers>>
    /\ burst' = NoteCall(r = "Accepted")

\* ------------------------------------------------------ refresh_events
\* The except branch around a provider call: messagebox.showerror("Error",
\* "Failed to load events: ..."), and the same in the event dialogs.
ShowError == IF probe = "errors" THEN ~provider_errors ELSE provider_errors

\* Variant of RefreshEvents: the re-plan test sits after the try statement,
\* so a failed listing is still followed by it.
RefreshEventsCheckAnyway(skip_replan, listed, cap) ==
    /\ events' = IF listed.ok THEN listed.items ELSE events
    /\ provider_errors' = IF listed.ok THEN provider_errors ELSE ShowError
    /\ IF replan_on_event_change /\ ~skip_replan /\ ~is_replanning
       THEN CheckAndReplan(events', cap)
       ELSE /\ UNCHANGED <<is_replanning, last_replan_time, workers>>
            /\ burst' = IF skip_replan THEN burst ELSE NoteCall(FALSE)

\* listed is the outcome of list_events (ok FALSE: it raised, and the handler
\* shows an error); cap is what analyze_capacity answers inside
\* _check_and_replan.
RefreshEvents(skip_replan, listed, cap) ==
    IF ~listed.ok
    THEN /\ UNCHANGED <<events, coordinator>>
         /\ provider_errors' = ShowError
    ELSE /\ events' = listed.items
         /\ UNCHANGED provider_errors
         /\ IF replan_on_event_change /\ ~skip_replan /\ ~is_replanning
            THEN CheckAndReplan(listed.items, cap)
            ELSE /\ UNCHANGED <<is_replanning, last_replan_time, workers>>
                 /\ burst' = IF skip_replan THEN burst ELSE NoteCall(FALSE)

ListResults ==
    {[ok |-> TRUE, items |-> l] : l \in Listings}
        \cup {[ok |-> FALSE, items |-> <<>>]}

\* The observer grows with the thread list.
Grow(obs) == IF Len(workers') > Len(workers) THEN Append(obs, NoOutcome) ELSE obs

\* The load_client thread is left out: it reads and writes nothing of the
\* coordinator.
LoaderOff ==
    [pc |-> "off", use_hf |-> FALSE, key |-> FALSE, path |-> "none",
     ready |-> 0, failed |-> 0]

\* No run of run_update is followed.
UpdaterOff == [pc |-> "off"]

\* No run of _compute_lanes is followed.
PackerOff ==
    [pc |-> "off", input |-> <<>>, items |-> <<>>, lanes |-> <<>>,
     layout |-> <<>>]

\* ------------------------------------------------------------- Init
\* The fields as __init__ leaves them just before its call of refresh_events.
Fields ==
    /\ now = 0
    /\ is_replanning = FALSE
    /\ last_replan_time = <<>>
    /\ events = <<>>
    /\ scheduled_tasks = {}
    /\ workers = <<>>
    /\ ui_queue = <<>>
    /\ ui = "init"
    /\ ticker = "off"
    /\ ticks = 0
    /\ completed_at = <<>>
    /\ burst = [start |-> <<>>, accepts |-> 0, rejected |-> FALSE]
    /\ observed = <<>>
    /\ provider_errors = FALSE

Init ==
    /\ Fields /\ probe = "none" /\ loader = LoaderOff /\ packer = PackerOff
    /\ updater = UpdaterOff

\* The same program, with the observer of completions switched on.
CompletionInit ==
    Fields /\ probe = "completion" /\ loader = LoaderOff /\ packer = PackerOff
    /\ updater = UpdaterOff

\* The same program, with the observer of bursts switched on.
BurstInit ==
    Fields /\ probe = "burst" /\ loader = LoaderOff /\ packer = PackerOff
    /\ updater = UpdaterOff

\* The same program, with the observer of provider errors switched on.
ErrorInit ==
    Fields /\ probe = "errors" /\ loader = LoaderOff /\ packer = PackerOff
    /\ updater = UpdaterOff

\* The same program, with the load_client thread that __init__ starts (line
\* 64) before its first refresh: use_hf and ai_api_key are its arguments.
LoaderInit ==
    /\ Fields /\ probe = "none" /\ packer = PackerOff
    /\ updater = UpdaterOff
    /\ \E hf \in BOOLEAN, key \in BOOLEAN :
           loader = [LoaderOff EXCEPT !.pc = "start", !.use_hf = hf,
                                      !.key = key]

\* --------------------------------------------------- UI thread handlers
\* __init__: self.refresh_events(); self._start_continuous_optimization()
ConstructWith(listed, cap) ==
    /\ ui = "init"
    /\ RefreshEvents(FALSE, listed, cap)
    /\ observed' = Grow(observed)
    /\ ui' = "idle"
    /\ ticker' = "sleep"
    /\ UNCHANGED <<now, scheduled_tasks, ui_queue, ticks, completed_at,
                   updater, probe, loader, packer>>

Construct == \E listed \in ListResults, cap \in CapOutcomes :
                 ConstructWith(listed, cap)

\* The Refresh button, prev_week, next_week, go_today and the event dialogs:
\* refresh_events() with skip_replan False.
RefreshWith(listed, cap) ==
    /\ ui = "idle"
    /\ RefreshEvents(FALSE, listed, cap)
    /\ observed' = Grow(observed)
    /\ UNCHANGED <<now, scheduled_tasks, ui_queue, ui, ticker, ticks,
                   completed_at,
                   updater, probe, loader, packer>>

Refresh == \E listed \in ListResults, cap \in CapOutcomes :
               RefreshWith(listed, cap)

\* schedule_all in the task manager: the scheduler's tasks get a
\* scheduled_start.
ScheduleAll ==
    /\ ui = "idle"
    /\ \E t \in Tasks \ scheduled_tasks :
           scheduled_tasks' = scheduled_tasks \cup {t}
    /\ UNCHANGED <<now, is_replanning, last_replan_time, events, workers,
                   ui_queue, ui, ticker, ticks, completed_at, burst, observed,
                   provider_errors, updater, probe, loader, packer>>

\* remove_task in the task manager.
RemoveTask ==
    /\ ui = "idle"
    /\ \E t \in scheduled_tasks :
           scheduled_tasks' = scheduled_tasks \ {t}
    /\ UNCHANGED <<now, is_replanning, last_replan_time, events, workers,
                   ui_queue, ui, ticker, ticks, completed_at, burst, observed,
                   provider_errors, updater, probe, loader, packer>>

\* add_to_calendar: the scheduled tasks leave the scheduler, then
\* refresh_events(skip_replan=True).
AddToCalendar ==
    /\ ui = "idle"
    /\ scheduled_tasks # {}
    /\ scheduled_tasks' = {}
    /\ \E listed \in ListResults, cap \in CapOutcomes :
           RefreshEvents(TRUE, listed, cap)
    /\ observed' = Grow(observed)
    /\ UNCHANGED <<now, ui_queue, ui, ticker, ticks, completed_at,
                   updater, probe, loader, packer>>

\* _shuffle_tasks: starts shuffle_async, with no test of any flag.
ShuffleTasks ==
    /\ ui = "idle"
    /\ Len(workers) < MaxWorkers
    /\ workers' = Append(workers, NewWorker("shuffle"))
    /\ observed' = Append(observed, NoOutcome)
    /\ UNCHANGED <<now, is_replanning, last_replan_time, events,
                   scheduled_tasks, ui_queue, ui, ticker, ticks, completed_at,
                   burst,
                   provider_errors, updater, probe, loader, packer>>

\* _optimize_schedule up to its call of optimizer.optimize_continuously(),
\* which runs on the UI thread: no handler or callback runs meanwhile.
OptimizeBegin ==
    /\ ui = "idle"
    /\ ui' = "optimizing"
    /\ UNCHANGED <<now, is_replanning, last_replan_time, events,
                   scheduled_tasks, workers, ui_queue, ticker, ticks,
                   completed_at, burst, observed,
                   provider_errors, updater, probe, loader, packer>>

\* optimize_continuously() returned: the result is shown, then
\* self.refresh_events().
OptimizeReturnWith(listed, cap) ==
    /\ ui = "optimizing"
    /\ RefreshEvents(FALSE, listed, cap)
    /\ observed' = Grow(observed)
    /\ ui' = "idle"
    /\ UNCHANGED <<now, scheduled_tasks, ui_queue, ticker, ticks,
                   completed_at,
                   updater, probe, loader, packer>>

OptimizeReturn == \E listed \in ListResults, cap \in CapOutcomes :
                      OptimizeReturnWith(listed, cap)

\* optimize_continuously() raised: an error box, no refresh.
OptimizeRaise ==
    /\ ui = "optimizing"
    /\ ui' = "idle"
    /\ UNCHANGED <<now, is_replanning, last_replan_time, events,
                   scheduled_tasks, workers, ui_queue, ticker, ticks,
                   completed_at, burst, observed,
                   provider_errors, updater, probe, loader, packer>>

\* ev["summary"] = new_title in _edit_event: the edited event of self.events
\* is retitled in place before the provider is called.
Retitled(evs) == {[evs EXCEPT ![i] = tag] : i \in DOMAIN evs, tag \in BOOLEAN}

\* The event dialogs: on_save of _quick_add_event ("add"), _edit_event
\* ("update") and delete_selected ("delete"). done is whether the provider
\* call (add_event, update_event, delete_event) returned; when it raised, the
\* handler shows an error and does not reach refresh_events.
EventDialogWith(kind, done, listed, cap) ==
    /\ ui = "idle"
    /\ kind # "add" => events # <<>>
    /\ IF done /\ listed.ok
       THEN RefreshEvents(FALSE, listed, cap)
       ELSE /\ events' \in IF kind = "update" THEN Retitled(events)
                                               ELSE {events}
            /\ UNCHANGED coordinator
            /\ provider_errors' = ShowError
    /\ observed' = Grow(observed)
    /\ UNCHANGED <<now, scheduled_tasks, ui_queue, ui, ticker, ticks,
                   completed_at,
                   updater, probe, loader, packer>>

EventDialog ==
    \E kind \in {"add", "update", "delete"}, done \in BOOLEAN,
       listed \in ListResults, cap \in CapOutcomes :
        EventDialogWith(kind, done, listed, cap)

\* ------------------------------------------------------- replan_async
SetWorker(i, pc, result) ==
    [workers EXCEPT ![i] = [@ EXCEPT !.pc = pc, !.result = result]]

\* root.after(0, lambda: setattr(self, '_is_replanning', False))
ClearFlag(i) == Callback("clear_flag", i, FALSE, "none")

\* Variant of CompletionRefresh: the refresh is queued without skip_replan.
CompletionRefreshNoSkip(i) == Callback("refresh_events", i, FALSE, "none")

\* root.after(0, lambda: self.refresh_events(skip_replan=True))
CompletionRefresh(i) == Callback("refresh_events", i, TRUE, "none")

\* The callbacks replan_async queues for a returned result, after the one
\* that clears the flag.
NotifyCallbacks(i, status) ==
    IF status = "success"
    THEN <<Callback("showinfo", i, FALSE, status), CompletionRefresh(i)>>
    ELSE IF status = "no_tasks"
    THEN <<>>
    ELSE <<Callback("print_failure", i, FALSE, status)>>

\* Variant of ExceptCallbacks: the except branch only prints.
ExceptCallbacksNone(i) == <<>>

\* Variant of ExceptCallbacks: the clearing is queued twice.
ExceptCallbacksTwice(i) == <<ClearFlag(i), ClearFlag(i)>>

\* The callbacks the except branch of replan_async queues; the message itself
\* is printed by the worker thread.
ExceptCallbacks(i) == <<ClearFlag(i)>>

\* result = self.optimizer.auto_replan(reason) returns and the worker queues
\* the clearing of the flag ("Clear flag after replan completes").
ReplanReturn(i) ==
    /\ workers[i].kind = "replan" /\ workers[i].pc = "call"
    /\ \E st \in Statuses : workers' = SetWorker(i, "notify", st)
    /\ ui_queue' = Append(ui_queue, ClearFlag(i))
    /\ UNCHANGED <<now, is_replanning, last_replan_time, events,
                   scheduled_tasks, ui, ticker, ticks, completed_at, burst,
                   observed,
                   provider_errors, updater, probe, loader, packer>>

\* the if / elif / else on result.get("status")
ReplanNotify(i) ==
    /\ workers[i].kind = "replan" /\ workers[i].pc = "notify"
    /\ ui_queue' = ui_queue \o NotifyCallbacks(i, workers[i].result)
    /\ workers' = SetWorker(i, "done", workers[i].result)
    /\ UNCHANGED <<now, is_replanning, last_replan_time, events,
                   scheduled_tasks, ui, ticker, ticks, completed_at, burst,
                   observed,
                   provider_errors, updater, probe, loader, packer>>

\* Variant of ReplanRaise: the except branch assigns the flag itself, on the
\* worker thread, and queues nothing.
ReplanRaiseClearsDirectly(i) ==
    /\ workers[i].kind = "replan" /\ workers[i].pc = "call"
    /\ is_replanning' = FALSE
    /\ workers' = SetWorker(i, "done", "raise")
    /\ UNCHANGED <<now, last_replan_time, events, ui_queue,
                   scheduled_tasks, ui, ticker, ticks, completed_at, burst,
                   observed,
                   provider_errors, updater, probe, loader, packer>>

\* self.optimizer.auto_replan(reason) raises and the except branch runs
ReplanRaise(i) ==
    /\ workers[i].kind = "replan" /\ workers[i].pc = "call"
    /\ ui_queue' = ui_queue \o ExceptCallbacks(i)
    /\ workers' = SetWorker(i, "done", "raise")
    /\ UNCHANGED <<now, is_replanning, last_replan_time, events,
                   scheduled_tasks, ui, ticker, ticks, completed_at, burst,
                   observed,
                   provider_errors, updater, probe, loader, packer>>

\* ------------------------------------------------------ shuffle_async
\* result = self.optimizer.shuffle_tasks(...) returns, then
\* root.after(0, lambda: self._handle_shuffle_result(result))
ShuffleReturn(i) ==
    /\ workers[i].kind = "shuffle" /\ workers[i].pc = "call"
    /\ \E st \in Statuses :
           /\ workers' = SetWorker(i, "done", st)
           /\ ui_queue' = Append(ui_queue,
                  Callback("handle_shuffle_result", i, FALSE, st))
    /\ UNCHANGED <<now, is_replanning, last_replan_time, events,
                   scheduled_tasks, ui, ticker, ticks, completed_at, burst,
                   observed,
                   provider_errors, updater, probe, loader, packer>>

\* self.optimizer.shuffle_tasks(...) raises: shuffle_async has no handler,
\* the thread ends with nothing queued.
ShuffleRaise(i) ==
    /\ workers[i].kind = "shuffle" /\ workers[i].pc = "call"
    /\ workers' = SetWorker(i, "crashed", "raise")
    /\ UNCHANGED <<now, is_replanning, last_replan_time, events,
                   scheduled_tasks, ui_queue, ui, ticker, ticks, completed_at,
                   burst, observed,
                   provider_errors, updater, probe, loader, packer>>

\* ------------------------------------------------------- optimize_loop
\* time.sleep(300) ends; optimizer.optimize_continuously() is entered.  The
\* length of the sleep is left open: the clock of the model is far shorter.
TickerWake ==
    /\ ticker = "sleep"
    /\ ticks < MaxTicks
    /\ ticker' = "call"
    /\ ticks' = ticks + 1
    /\ UNCHANGED <<now, is_replanning, last_replan_time, events,
                   scheduled_tasks, workers, ui_queue, ui, completed_at, burst,
                   observed,
                   provider_errors, updater, probe, loader, packer>>

\* optimize_continuously() returns; with warnings or bottlenecks in the
\* result, root.after(0, self._update_ai_analysis)
TickerReturn ==
    /\ ticker = "call"
    /\ ticker' = "sleep"
    /\ \E found \in BOOLEAN :
           ui_queue' = IF found
                       THEN Append(ui_queue,
                                Callback("update_ai_analysis", 0, FALSE, "none"))
                       ELSE ui_queue
    /\ UNCHANGED <<now, is_replanning, last_replan_time, events,
                   scheduled_tasks, workers, ui, ticks, completed_at, burst,
                   observed,
                   provider_errors, updater, probe, loader, packer>>

\* optimize_continuously() raises: printed, the loop goes on
TickerRaise ==
    /\ ticker = "call"
    /\ ticker' = "sleep"
    /\ UNCHANGED <<now, is_replanning, last_replan_time, events,
                   scheduled_tasks, workers, ui_queue, ui, ticks, completed_at,
                   burst, observed,
                   provider_errors, updater, probe, loader, packer>>

\* ------------------------------------------------------- load_client
\* The ways through load_client: with Hugging Face the wrapper is ready, is
\* not ready, or its import or construction raises; with Gemini the client is
\* created, there is no API key, or the import or construction raises.
LoaderPaths ==
    IF loader.use_hf THEN {"hf_ready", "hf_not_ready", "hf_raise"}
    ELSE IF loader.key THEN {"gemini_ready", "gemini_raise"}
    ELSE {"gemini_no_key", "gemini_raise"}

LoaderCallback(op, status) == Callback(op, 0, FALSE, status)

\* The root.after calls load_client makes on each way, in source order.
LoaderCallbacks(path) ==
    CASE path = "hf_ready" ->
             <<LoaderCallback("loader_status", "ready"),
               LoaderCallback("close_loading_dialog", "none"),
               LoaderCallback("update_ai_analysis", "none")>>
      [] path = "hf_not_ready" ->
             <<LoaderCallback("loader_status", "unavailable"),
               LoaderCallback("loader_print", "none"),
               LoaderCallback("close_loading_dialog", "none")>>
      [] path = "hf_raise" ->
             <<LoaderCallback("loader_print", "none"),
               LoaderCallback("loader_status", "failed"),
               LoaderCallback("close_loading_dialog", "none")>>
      [] path = "gemini_ready" ->
             <<LoaderCallback("loader_status", "ready"),
               LoaderCallback("update_ai_analysis", "none")>>
      [] OTHER -> <<>>

\* load_client starts: with use_hf, root.after(0, self._show_loading_dialog,
\* ...); then the client's import and construction are entered.
LoadBegin ==
    /\ loader.pc = "start"
    /\ loader' = [loader EXCEPT !.pc = "construct"]
    /\ ui_queue' = IF loader.use_hf
                   THEN Append(ui_queue,
                            LoaderCallback("show_loading_dialog", "none"))
                   ELSE ui_queue
    /\ UNCHANGED <<now, is_replanning, last_replan_time, events,
                   scheduled_tasks, workers, ui, ticker, ticks, completed_at,
                   burst, observed,
                   provider_errors, updater, probe, packer>>

\* The import and construction end one way or another, and load_client runs
\* to its end.
LoadEnd ==
    /\ loader.pc = "construct"
    /\ \E path \in LoaderPaths :
           /\ loader' = [loader EXCEPT !.pc = "done", !.path = path]
           /\ ui_queue' = ui_queue \o LoaderCallbacks(path)
    /\ UNCHANGED <<now, is_replanning, last_replan_time, events,
                   scheduled_tasks, workers, ui, ticker, ticks, completed_at,
                   burst, observed,
                   provider_errors, updater, probe, packer>>

LoaderStep == LoadBegin \/ LoadEnd

\* self.status.config(text=...) run by a queued callback of load_client: the
\* ready notification or the failure notification.
LoaderNotified(cb) ==
    IF cb.op # "loader_status" THEN loader
    ELSE IF cb.status = "ready" THEN [loader EXCEPT !.ready = @ + 1]
    ELSE [loader EXCEPT !.failed = @ + 1]

\* ------------------------------------------- the root.after callbacks
Deliver(obs, i, what) ==
    [obs EXCEPT ![i] = [@ EXCEPT !.delivered = Append(@, what)]]

ProcessCallback ==
    /\ ui = "idle"
    /\ ui_queue # <<>>
    /\ ui_queue' = Tail(ui_queue)
    /\ LET cb == Head(ui_queue) IN
       CASE cb.op = "clear_flag" ->
                /\ is_replanning' = FALSE
                /\ completed_at' = IF probe = "completion" THEN <<now>>
                                   ELSE completed_at
                /\ observed' = [observed EXCEPT ![cb.run] =
                                   [@ EXCEPT !.cleared = @ + 1]]
                /\ UNCHANGED <<last_replan_time, events, workers, burst,
                               provider_errors>>
         [] cb.op = "showinfo" ->
                /\ observed' = Deliver(observed, cb.run, cb.status)
                /\ UNCHANGED <<is_replanning, last_replan_time, events,
                               workers, burst, completed_at, provider_errors>>
         [] cb.op = "print_failure" ->
                /\ observed' = Deliver(observed, cb.run, cb.status)
                /\ UNCHANGED <<is_replanning, last_replan_time, events,
                               workers, burst, completed_at, provider_errors>>
         [] cb.op = "refresh_events" ->
                /\ \E listed \in ListResults, cap \in CapOutcomes :
                       RefreshEvents(cb.skip, listed, cap)
                /\ observed' = Grow(observed)
                /\ UNCHANGED completed_at
         [] cb.op = "handle_shuffle_result" ->
                /\ IF cb.status = "success"
                   THEN \E listed \in ListResults, cap \in CapOutcomes :
                            RefreshEvents(TRUE, listed, cap)
                   ELSE UNCHANGED <<events, coordinator, provider_errors>>
                /\ observed' = Grow(Deliver(observed, cb.run, cb.status))
                /\ UNCHANGED completed_at
         [] OTHER ->
                \* _update_ai_analysis, and the callbacks of load_client:
                \* the status line, the loading dialog, a print (the one of
                \* line 1510 reads the deleted name e and raises inside Tk's
                \* callback wrapper, which reports it and goes on)
                UNCHANGED <<is_replanning, last_replan_time, events, workers,
                            burst, completed_at, observed, provider_errors>>
    /\ loader' = LoaderNotified(Head(ui_queue))
    /\ UNCHANGED <<now, scheduled_tasks, ui, ticker, ticks,
                   updater, probe, packer>>

\* ------------------------------------------------------------ the clock
Tick ==
    /\ now < MaxTime
    /\ now' = now + 1
    /\ UNCHANGED <<is_replanning, last_replan_time, events, scheduled_tasks,
                   workers, ui_queue, ui, ticker, ticks, completed_at, burst,
                   observed,
                   provider_errors, updater, probe, loader, packer>>

ReplanStep ==
    \E i \in DOMAIN workers :
        \/ ReplanReturn(i)
        \/ ReplanNotify(i)
        \/ ReplanRaise(i)

ShuffleStep ==
    \E i \in DOMAIN workers :
        \/ ShuffleReturn(i)
        \/ ShuffleRaise(i)

TickerStep == TickerWake \/ TickerReturn \/ TickerRaise

\* The coordinator: every handler of the UI thread that refreshes or
\* requests a re-plan, the root.after callbacks, the replan_async threads
\* and the clock.
Next ==
    \/ Construct
    \/ Refresh
    \/ ScheduleAll
    \/ RemoveTask
    \/ AddToCalendar
    \/ OptimizeBegin
    \/ OptimizeReturn
    \/ OptimizeRaise
    \/ ProcessCallback
    \/ ReplanStep
    \/ Tick

\* The coordinator together with the threads that never read or write
\* ReplanState: shuffle_async (started by _shuffle_tasks) and optimize_loop.
AppNext ==
    \/ Next
    \/ ShuffleTasks
    \/ ShuffleStep
    \/ TickerStep

Spec == Init /\ [][Next]_vars

CompletionSpec == CompletionInit /\ [][Next]_vars

BurstSpec == BurstInit /\ [][Next]_vars

AppSpec == Init /\ [][AppNext]_vars

\* The coordinator together with the load_client thread.
LoaderNext == Next \/ LoaderStep

LoaderSpec == LoaderInit /\ [][LoaderNext]_vars

\* The two kinds of background worker with what starts them and what runs
\* their callbacks: the refreshes, _shuffle_tasks, the Tk queue, the threads
\* and the clock.
WorkerNext ==
    \/ Construct
    \/ Refresh
    \/ ShuffleTasks
    \/ ProcessCallback
    \/ ReplanStep
    \/ ShuffleStep
    \/ Tick

WorkerSpec == Init /\ [][WorkerNext]_vars

\* The coordinator with the event dialogs and the observer of provider
\* errors.
DialogNext == Next \/ EventDialog

DialogSpec == ErrorInit /\ [][DialogNext]_vars

\* The threads run to their end and the Tk main loop keeps running queued
\* callbacks; an optimizer call on the UI thread returns or raises.
FairSpec ==
    /\ Spec
    /\ WF_vars(ReplanStep)
    /\ SF_vars(ProcessCallback)
    /\ WF_vars(OptimizeReturn \/ OptimizeRaise)

\* ==================================================================
\* _compute_lanes
\* ==================================================================
Clock == 0..MaxClock

\* A dateTime field: absent or empty, text that fromisoformat rejects, or
\* ISO text of an instant.
Absent == [k |-> "none", t |-> 0]
Garbled == [k |-> "bad", t |-> 0]
Iso(t) == [k |-> "iso", t |-> t]

\* The events of a day: every pair of instants as start and end (end before,
\* at or after start), and events with one stamp absent or garbled.
DayEvents ==
    {[start |-> Iso(s), end |-> Iso(e)] : s \in Clock, e \in Clock}
        \cup {[start |-> a, end |-> Iso(0)] : a \in {Absent, Garbled}}
        \cup {[start |-> Iso(0), end |-> a] : a \in {Absent, Garbled}}

\* "if not s or not e: continue"
Present(stamp) == stamp.k # "none"

\* datetime.fromisoformat(iso.replace("Z", "+00:00")).astimezone() returns
\* rather than raises
Parses(stamp) == stamp.k = "iso"

\* the instant parse(iso) returns
parse(stamp) == stamp.t

\* Variant of Usable: only the start stamp is examined.
UsableStartOnly(ev) == Present(ev.start) /\ Parses(ev.start)

\* The event passes the filter loop: both stamps present and both parse.
Usable(ev) ==
    /\ Present(ev.start) /\ Present(ev.end)
    /\ Parses(ev.start) /\ Parses(ev.end)

\* The loop building items: (ev, parse(s), parse(e)) for each usable event,
\* in input order; ev is the event's position in the input.
Collect(input) ==
    LET idx == [i \in 1..Len(input) |-> i]
        kept == SelectSeq(idx, LAMBDA i : Usable(input[i]))
    IN [j \in 1..Len(kept) |->
           [ev |-> kept[j], s |-> parse(input[kept[j]].start),
            e |-> parse(input[kept[j]].end)]]

\* x goes after every element whose start is not later than its own.
InsertByStart(x, sorted) ==
    LET k == Cardinality({j \in DOMAIN sorted : sorted[j].s <= x.s})
    IN SubSeq(sorted, 1, k) \o <<x>> \o SubSeq(sorted, k + 1, Len(sorted))

\* x goes before the elements of equal start.
InsertBeforeEqual(x, sorted) ==
    LET k == Cardinality({j \in DOMAIN sorted : sorted[j].s < x.s})
    IN SubSeq(sorted, 1, k) \o <<x>> \o SubSeq(sorted, k + 1, Len(sorted))

RECURSIVE SortByStartUnstable(_)
\* Variant of SortByStart: items of equal start come out in reverse order.
SortByStartUnstable(items) ==
    IF items = <<>> THEN <<>>
    ELSE InsertBeforeEqual(items[Len(items)],
             SortByStartUnstable(SubSeq(items, 1, Len(items) - 1)))

\* Variant of SortByStart: the sort is left out.
SortByStartOmitted(items) == items

RECURSIVE SortByStart(_)
\* items.sort(key=lambda x: x[1]): by start, stable
SortByStart(items) ==
    IF items = <<>> THEN <<>>
    ELSE InsertByStart(items[Len(items)],
             SortByStart(SubSeq(items, 1, Len(items) - 1)))

\* Variant of FirstFit: the highest-index lane that qualifies.
FirstFitLast(lanes, s) ==
    LET fits == {i \in 1..Len(lanes) : s >= lanes[i]}
    IN IF fits = {} THEN 0 ELSE CHOOSE i \in fits : \A j \in fits : j <= i

\* Variant of FirstFit: a lane is free only strictly after its end.
FirstFitStrict(lanes, s) ==
    LET fits == {i \in DOMAIN lanes : s > lanes[i]}
    IN IF fits = {} THEN 0 ELSE CHOOSE i \in fits : \A j \in fits : i <= j

\* The inner loop: the first lane i with s >= lanes[i]; 0 when placed stays
\* False.
FirstFit(lanes, s) ==
    LET fits == {i \in DOMAIN lanes : s >= lanes[i]}
    IN IF fits = {} THEN 0 ELSE CHOOSE i \in fits : \A j \in fits : i <= j

\* Variant of LaneEnd: the lane records the start of the event.
LaneEndStart(item) == item.s

\* The end time a lane records for the event placed in it.
LaneEnd(item) == item.e

\* One pass of the outer loop: the lane list and the layout after the item.
\* lane_count 0 stands for the None the layout holds until the return.
PlaceOne(lanes, layout, item) ==
    LET i == FirstFit(lanes, item.s) IN
    IF i # 0
    THEN [lanes |-> [lanes EXCEPT ![i] = LaneEnd(item)],
          layout |-> Append(layout,
                         [ev |-> item.ev, lane |-> i - 1, lane_count |-> 0])]
    ELSE [lanes |-> Append(lanes, LaneEnd(item)),
          layout |-> Append(layout,
                         [ev |-> item.ev, lane |-> Len(lanes),
                          lane_count |-> 0])]

\* Variant of Counted: every entry with the number of events placed.
CountedEvents(layout, lanes) ==
    [j \in 1..Len(layout) |-> [layout[j] EXCEPT !.lane_count = Len(layout)]]

\* The return value: every entry with the number of lanes opened.
Counted(layout, lanes) ==
    [j \in 1..Len(layout) |-> [layout[j] EXCEPT !.lane_count = Len(lanes)]]

RECURSIVE PlaceFrom(_, _, _)
PlaceFrom(items, lanes, layout) ==
    IF items = <<>> THEN Counted(layout, lanes)
    ELSE LET r == PlaceOne(lanes, layout, Head(items))
         IN PlaceFrom(Tail(items), r.lanes, r.layout)

\* _compute_lanes(events) as a function of its argument
ComputeLanes(input) == PlaceFrom(SortByStart(Collect(input)), <<>>, <<>>)

\* _draw_timed_event: the interval drawn for the event, its end moved to
\* start + 30 minutes when it is not after the start.
DrawnInterval(ev) ==
    LET s == parse(ev.start)
        e == parse(ev.end)
    IN [s |-> s, e |-> IF e <= s THEN s + min_duration ELSE e]

\* _render hands one day's timed events to _compute_lanes.
PackInit ==
    /\ Fields /\ probe = "none" /\ loader = LoaderOff
    /\ updater = UpdaterOff
    /\ \E n \in 0..MaxEvents :
           \E input \in [1..n -> DayEvents] :
               packer = [PackerOff EXCEPT !.pc = "collect", !.input = input]

\* the filter loop and items.sort
PackCollect ==
    /\ packer.pc = "collect"
    /\ packer' = [packer EXCEPT !.pc = "place",
                                !.items = SortByStart(Collect(packer.input))]
    /\ UNCHANGED <<now, is_replanning, last_replan_time, events,
                   scheduled_tasks, workers, ui_queue, ui, ticker, ticks,
                   completed_at, burst, observed,
                   provider_errors, updater, probe, loader>>

\* one pass of "for ev, s, e in items"
PackPlace ==
    /\ packer.pc = "place"
    /\ Len(packer.layout) < Len(packer.items)
    /\ LET r == PlaceOne(packer.lanes, packer.layout,
                         packer.items[Len(packer.layout) + 1])
       IN packer' = [packer EXCEPT !.lanes = r.lanes, !.layout = r.layout]
    /\ UNCHANGED <<now, is_replanning, last_replan_time, events,
                   scheduled_tasks, workers, ui_queue, ui, ticker, ticks,
                   completed_at, burst, observed,
                   provider_errors, updater, probe, loader>>

\* lane_count = len(lanes) and the return
PackReturn ==
    /\ packer.pc = "place"
    /\ Len(packer.layout) = Len(packer.items)
    /\ packer' = [packer EXCEPT !.pc = "done",
                                !.layout = Counted(packer.layout, packer.lanes)]
    /\ UNCHANGED <<now, is_replanning, last_replan_time, events,
                   scheduled_tasks, workers, ui_queue, ui, ticker, ticks,
                   completed_at, burst, observed,
                   provider_errors, updater, probe, loader>>

PackNext == PackCollect \/ PackPlace \/ PackReturn

PackSpec == PackInit /\ [][PackNext]_vars

\* The timed events of one morning, on a half-hour grid: each starts before
\* it ends.
HalfHours == 0..MaxHalfHours

MorningEvents ==
    {ev \in {[start |-> Iso(s), end |-> Iso(e)] : s \in HalfHours,
                                                  e \in HalfHours} :
        ev.start.t < ev.end.t}

\* _render hands one morning's events to _compute_lanes.
MorningInit ==
    /\ Fields /\ probe = "none" /\ loader = LoaderOff
    /\ updater = UpdaterOff
    /\ \E n \in 0..MaxEvents :
           \E input \in [1..n -> MorningEvents] :
               packer = [PackerOff EXCEPT !.pc = "collect", !.input = input]

MorningSpec == MorningInit /\ [][PackNext]_vars

\* ==================================================================
\* ApolloUpdater.run_update (src/apollo/updater.py): one run of the
\* updater, a program of its own, over the entries of the user directory.
\* ==================================================================
\* An entry name of the user directory, as stem and extension.
Name(stem, ext) == [stem |-> stem, ext |-> ext]

UpdaterPy == Name("updater", "py")
ApolloDb == Name("apollo", "db")
SpotifyCookies == Name("spotify_cookies", "json")
DotApollo == Name(".apollo", "")
PyCache == Name("__pycache__", "")
UpdaterPyc == Name("updater", "pyc")
TempUpdate == Name("temp_update", "")
UpdateZip == Name("update", "zip")

Entries ==
    {UpdaterPy, ApolloDb, SpotifyCookies, DotApollo, PyCache, UpdaterPyc,
     TempUpdate, UpdateZip}

\* What the package may carry in its user/ folder.
PackageEntries ==
    {UpdaterPy, ApolloDb, SpotifyCookies, DotApollo, PyCache, UpdaterPyc}

\* fnmatch of shutil.ignore_patterns: "*.db" is Name("*", "db"), a pattern
\* without wildcard matches the one name it spells.
fnmatch(name, pat) ==
    /\ pat.stem = "*" \/ pat.stem = name.stem
    /\ pat.ext = name.ext

Matches(name, patterns) == \E pat \in patterns : fnmatch(name, pat)

\* ignore=shutil.ignore_patterns(...) of backup_current_version
backup_ignore ==
    {Name("__pycache__", ""), Name("*", "pyc"), Name("*", "db"),
     Name("temp_update", ""), Name("update", "zip"), Name(".apollo", "")}

\* preserve_patterns of apply_update ("Files to preserve (user data)"): the
\* list is assigned and never read.
preserve_patterns ==
    {Name("__pycache__", ""), Name("*", "pyc"), Name("*", "db"),
     Name("spotify_cookies", "json"), Name(".apollo", "")}

\* "if item.name in ['__pycache__', 'temp_update', 'update.zip']: continue"
apply_skip == {PyCache, TempUpdate, UpdateZip}

\* "if item.name not in ['__pycache__', 'temp_update']" of restore_backup
restore_keep == {PyCache, TempUpdate}

\* A directory maps every entry name to what it holds: nothing, what the
\* user had before the run, what the package brings, or a copy left by an
\* earlier run.
NoEntries == [n \in Entries |-> "absent"]

\* shutil.copytree(self.user_dir, backup_dir, ignore=...)
BackupCopy(dir) ==
    [n \in Entries |-> IF Matches(n, backup_ignore) THEN "absent" ELSE dir[n]]

\* The entries of the package that the copy loop of apply_update copies.
Copyable(package) ==
    IF package.has_user THEN package.items \ apply_skip ELSE {}

\* shutil.copy2(item, dest) and the merge of a directory, for the entries
\* copied so far.
Copied(dir, copied) ==
    [n \in Entries |-> IF n \in copied THEN "new" ELSE dir[n]]

\* The removal loop of restore_backup.
Removed(dir, gone) ==
    [n \in Entries |-> IF n \in gone THEN "absent" ELSE dir[n]]

Removable(dir) == {n \in Entries : dir[n] # "absent"} \ restore_keep

\* restore_backup run to its end: everything but the kept names is removed,
\* then every entry of the backup is copied back.
Restored(dir, backup) ==
    [n \in Entries |-> IF n \in restore_keep THEN dir[n] ELSE backup[n]]

\* No backup directory: user_backup does not exist.
NoBackup == [exists |-> FALSE, run |-> "none", files |-> NoEntries]

\* user_backup as an earlier run left it.
StaleBackup ==
    [exists |-> TRUE, run |-> "earlier",
     files |-> [NoEntries EXCEPT ![UpdaterPy] = "stale"]]

\* "if not update_info: return"
AfterCheck(update_info) == IF update_info THEN "confirm" ELSE "done"

\* "if response != 'y': ... return", skipped in auto mode
AfterConfirm(auto, response) == IF auto \/ response = "y" THEN "backup" ELSE "done"

\* Variant of AfterBackup: the result of the backup is not looked at.
AfterBackupUnchecked(backup_dir) == "download"

\* "if not backup_dir: ... return"
AfterBackup(backup_dir) == IF backup_dir THEN "download" ELSE "done"

\* "if not update_file: ... return"
AfterDownload(update_file) == IF update_file THEN "apply" ELSE "done"

\* "if not success: ... else: ..."
AfterApply(success) == IF success THEN "version" ELSE "restore"

UpdateInit ==
    /\ Fields /\ probe = "none" /\ loader = LoaderOff /\ packer = PackerOff
    /\ \E auto \in BOOLEAN,
          present \in SUBSET (PackageEntries \ {UpdaterPy}),
          has_user \in BOOLEAN,
          items \in SUBSET PackageEntries,
          old_backup \in {NoBackup, StaleBackup} :
           /\ ~has_user => items = {}
           /\ LET dir == [n \in Entries |->
                             IF n = UpdaterPy \/ n \in present THEN "old"
                             ELSE "absent"]
              IN updater =
                   [pc |-> "check", auto |-> auto, user_dir |-> dir,
                    before |-> dir, backup_dir |-> old_backup,
                    restored_from |-> "none",
                    package |-> [has_user |-> has_user, items |-> items],
                    version |-> "current", trace |-> <<>>]

calendar_vars ==
    <<now, is_replanning, last_replan_time, events, scheduled_tasks, workers,
      ui_queue, ui, ticker, ticks, completed_at, burst, observed,
      provider_errors, probe, loader, packer>>

\* update_info = self.check_for_updates(): a newer release, or None (up to
\* date, no version in the release, a failed request)
CheckForUpdates ==
    /\ updater.pc = "check"
    /\ \E newer \in BOOLEAN :
           updater' = [updater EXCEPT
               !.pc = AfterCheck(newer),
               !.trace = Append(@, IF newer THEN "check_newer"
                                            ELSE "check_none")]
    /\ UNCHANGED calendar_vars

\* input("Update to v...? (y/n): ") unless auto
Confirm ==
    /\ updater.pc = "confirm"
    /\ \E response \in {"y", "n"} :
           updater' = [updater EXCEPT
               !.pc = AfterConfirm(updater.auto, response),
               !.trace = Append(@, IF updater.auto THEN "auto"
                                   ELSE IF response = "y" THEN "confirmed"
                                   ELSE "declined")]
    /\ UNCHANGED calendar_vars

\* backup_dir = self.backup_current_version(): an old user_backup is removed
\* and the user directory copied; on an exception None is returned, with the
\* old backup still there or already removed.
BackupCurrentVersion ==
    /\ updater.pc = "backup"
    /\ \/ updater' = [updater EXCEPT
              !.pc = AfterBackup(TRUE),
              !.backup_dir = [exists |-> TRUE, run |-> "this",
                              files |-> BackupCopy(updater.user_dir)],
              !.trace = Append(@, "backup_ok")]
       \/ \E left \in {updater.backup_dir, NoBackup} :
              updater' = [updater EXCEPT
                  !.pc = AfterBackup(FALSE),
                  !.backup_dir = left,
                  !.trace = Append(@, "backup_failed")]
    /\ UNCHANGED calendar_vars

\* update_file = self.download_update(url): update.zip is written into the
\* user directory; on an exception None is returned, and the file may have
\* been created already.
DownloadUpdate ==
    /\ updater.pc = "download"
    /\ \/ updater' = [updater EXCEPT
              !.pc = AfterDownload(TRUE),
              !.user_dir = [@ EXCEPT ![UpdateZip] = "new"],
              !.trace = Append(@, "download_ok")]
       \/ \E zip \in {updater.user_dir[UpdateZip], "new"} :
              updater' = [updater EXCEPT
                  !.pc = AfterDownload(FALSE),
                  !.user_dir = [@ EXCEPT ![UpdateZip] = zip],
                  !.trace = Append(@, "download_failed")]
    /\ UNCHANGED calendar_vars

\* success = self.apply_update(update_file): temp_update is made, the
\* package extracted and its user/ entries copied over the user directory,
\* then temp_update and update.zip are removed.  It returns False when the
\* package has no user/ folder or when an exception stops it, with the
\* entries copied so far in place and temp_update left behind.
ApplyUpdate ==
    /\ updater.pc = "apply"
    /\ \/ /\ updater.package.has_user
          /\ updater' = [updater EXCEPT
                 !.pc = AfterApply(TRUE),
                 !.user_dir =
                     [Copied(@, Copyable(updater.package)) EXCEPT
                         ![TempUpdate] = "absent", ![UpdateZip] = "absent"],
                 !.trace = Append(@, "apply_ok")]
       \/ \E copied \in SUBSET Copyable(updater.package) :
              updater' = [updater EXCEPT
                  !.pc = AfterApply(FALSE),
                  !.user_dir = [Copied(@, copied) EXCEPT
                                   ![TempUpdate] = "new"],
                  !.trace = Append(@, "apply_failed")]
    /\ UNCHANGED calendar_vars

\* self.restore_backup(backup_dir): the result is not looked at.  On an
\* exception the removal loop has removed some entries and nothing was
\* copied back, or everything was removed and the first copy failed.
RestoreBackup ==
    /\ updater.pc = "restore"
    /\ \/ updater' = [updater EXCEPT
              !.pc = "done",
              !.user_dir = Restored(@, updater.backup_dir.files),
              !.restored_from = updater.backup_dir.run,
              !.trace = Append(@, "restore_ok")]
       \/ \E gone \in {{}, Removable(updater.user_dir)} :
              updater' = [updater EXCEPT
                  !.pc = "done",
                  !.user_dir = Removed(@, gone),
                  !.restored_from = updater.backup_dir.run,
                  !.trace = Append(@, "restore_failed")]
    /\ UNCHANGED calendar_vars

\* self._update_version_in_file(update_info["version"]): CURRENT_VERSION is
\* rewritten in updater.py, or an exception is printed.
UpdateVersionInFile ==
    /\ updater.pc = "version"
    /\ \E written \in BOOLEAN :
           updater' = [updater EXCEPT
               !.pc = "done",
               !.version = IF written THEN "latest" ELSE @,
               !.trace = Append(@, IF written THEN "version_written"
                                              ELSE "version_failed")]
    /\ UNCHANGED calendar_vars

UpdateNext ==
    \/ CheckForUpdates
    \/ Confirm
    \/ BackupCurrentVersion
    \/ DownloadUpdate
    \/ ApplyUpdate
    \/ RestoreBackup
    \/ UpdateVersionInFile

UpdateSpec == UpdateInit /\ [][UpdateNext]_vars

\* ==================================================================
\* Claims
\* ==================================================================
\* What the claims say of a request, written without the program's own tests.
Tagged(evs) == \E i \in DOMAIN evs : evs[i] = TRUE

WithinCooldownWindow ==
    /\ last_replan_time # <<>>
    /\ now - last_replan_time[1] < replan_cooldown

\* No re-plan is dispatched by the step and ReplanState is as it was.
Rejected ==
    /\ workers' = workers
    /\ is_replanning' = is_replanning
    /\ last_replan_time' = last_replan_time

\* C1: at most one re-plan is Running in any reachable state, and while one
\* is Running the flag that rejects further requests is set.
C1_MutualExclusion ==
    /\ Cardinality(Running) <= 1
    /\ Running # {} => is_replanning

\* C1 witness: a second re-plan is Running after an earlier one has finished.
C1_Witness ==
    /\ Len(workers) >= 2
    /\ workers[1].kind = "replan" /\ workers[2].kind = "replan"
    /\ Running = {2}

\* C2 (as claimed): no two optimizer runs of any origin (re-plan worker,
\* shuffle worker, periodic tick, manual optimize) are in flight together.
C2_SharedLock ==
    Cardinality(InOptimizer)
        + (IF ticker = "call" THEN 1 ELSE 0)
        + (IF ui = "optimizing" THEN 1 ELSE 0) <= 1

\* C3: no step taken while the last-replan timestamp is set and less than
\* the cooldown ago dispatches a re-plan or changes ReplanState's timestamp,
\* whatever the listing and the capacity analysis of a request in it.
C3_CooldownUnconditional ==
    [][WithinCooldownWindow =>
          /\ ReplanWorkers' = ReplanWorkers
          /\ last_replan_time' = last_replan_time
          /\ is_replanning' => is_replanning]_vars

\* C3 witness: inside the cooldown, Idle, with tagged events listed: a state
\* where only the cooldown test stands between a request and acceptance.
C3_Witness ==
    /\ WithinCooldownWindow
    /\ ~is_replanning
    /\ Tagged(events)
    /\ ui = "idle"

\* C4 (as claimed): the cooldown runs from the completion of a re-plan:
\* the re-plan now Running was dispatched at least one cooldown window after
\* the previous one completed.
C4_CooldownFromCompletion ==
    (is_replanning /\ completed_at # <<>>) =>
        last_replan_time[1] - completed_at[1] >= replan_cooldown

\* C4 (amended): the cooldown runs from the dispatch of a re-plan: each
\* dispatch comes at least one cooldown window after the previous dispatch.
C4_CooldownFromDispatch ==
    [][(last_replan_time # <<>> /\ last_replan_time' # last_replan_time) =>
          last_replan_time'[1] - last_replan_time[1] >= replan_cooldown]_vars

\* C4 witness: a second re-plan Running, dispatched one cooldown window after
\* the first was dispatched and less than that after the first completed.
C4_Witness ==
    /\ Cardinality(ReplanWorkers) = 2
    /\ is_replanning
    /\ completed_at # <<>>
    /\ last_replan_time[1] - completed_at[1] < replan_cooldown

\* C5: with no tagged event in the listing a request sees and no scheduled
\* task in the scheduler, no step dispatches a re-plan or changes ReplanState,
\* whatever the capacity analysis answers.
C5_NothingToReplan ==
    [][(~Tagged(events') /\ scheduled_tasks = {}) =>
          /\ ReplanWorkers' = ReplanWorkers
          /\ last_replan_time' = last_replan_time
          /\ is_replanning' => is_replanning]_vars

\* C5 witness: after the first refresh, Idle, never in a cooldown, nothing
\* tagged listed and nothing scheduled: only this gate has rejected.
C5_Witness ==
    /\ ui = "idle"
    /\ ~Tagged(events) /\ events # <<>>
    /\ scheduled_tasks = {}
    /\ last_replan_time = <<>>
    /\ workers = <<>>

\* A request: refresh_events with skip_replan False, with these inputs.
Requested(listed, cap) ==
    \/ ConstructWith(listed, cap)
    \/ RefreshWith(listed, cap)
    \/ OptimizeReturnWith(listed, cap)

\* Idle, outside the cooldown, with something to replan.
Admissible(listed) ==
    /\ listed.ok
    /\ ~is_replanning
    /\ ~WithinCooldownWindow
    /\ Tagged(listed.items) \/ scheduled_tasks # {}

Dispatched ==
    /\ workers' = Append(workers, NewWorker("replan"))
    /\ is_replanning'
    /\ last_replan_time' = <<now>>

C7_FailureReleasesLock ==
    \A i \in ReplanWorkers :
        workers[i].result = "raise" =>
            /\ workers[i].pc = "done"
            /\ \/ ClearQueued(i) /\ observed[i].cleared = 0
               \/ /\ ~ClearQueued(i)
                  /\ observed[i].cleared = 1
                  /\ is_replanning => \E j \in Running : j > i

\* C7 witness: a re-plan accepted after an earlier one raised.
C7_Witness ==
    \E i, j \in ReplanWorkers :
        i < j /\ workers[i].result = "raise" /\ workers[j].pc = "call"

\* The step that runs the refresh queued by a re-plan's completion.
RunsCompletionRefresh ==
    /\ ui_queue # <<>>
    /\ ui_queue' = Tail(ui_queue)
    /\ Head(ui_queue).op = "refresh_events"

\* C8: the refresh queued by a re-plan's completion carries skip_replan =
\* True, and a refresh with skip_replan = True (that one, or add_to_calendar's)
\* leaves ReplanState as it was and dispatches nothing.
C8_NoSelfRetrigger ==
    [][/\ RunsCompletionRefresh => (Head(ui_queue).skip /\ Rejected)
       /\ AddToCalendar => Rejected]_vars

\* C8 witness: a successful re-plan whose three callbacks have all run, the
\* refresh last, and no second re-plan has been dispatched.
C8_Witness ==
    /\ Len(workers) = 1
    /\ workers[1].kind = "replan"
    /\ workers[1].pc = "done" /\ workers[1].result = "success"
    /\ observed[1].delivered = <<"success">>
    /\ ui_queue = <<>>
    /\ Tagged(events)

\* Every callback queued by thread i has run.
CallbacksRun(i) == \A k \in DOMAIN ui_queue : ui_queue[k].run # i

Finished(i) == workers[i].pc = "done" /\ CallbacksRun(i)

\* What replan_async hands to the UI thread of its outcome: a message box for
\* success, a printed message for a failure status, nothing for no_tasks and
\* nothing for an exception (printed by the worker thread itself).
HandedOver(result) ==
    IF result \in {"success", "error"} THEN <<result>> ELSE <<>>

\* C9 (as claimed): a re-plan that has finished has delivered exactly one
\* callback carrying its outcome to the UI thread.
C9_OutcomeDelivered ==
    \A i \in ReplanWorkers :
        Finished(i) => observed[i].delivered = <<workers[i].result>>

\* C9 (amended): every accepted re-plan eventually finishes with exactly one
\* flag-clearing callback run on the UI thread, never more than one, and with
\* its outcome handed to the UI thread for success and failure status only.
C9_CompletionCallbacks ==
    /\ [](\A i \in ReplanWorkers :
             /\ observed[i].cleared <= 1
             /\ Finished(i) =>
                    /\ observed[i].cleared = 1
                    /\ observed[i].delivered = HandedOver(workers[i].result))
    /\ \A i \in 1..MaxWorkers :
           (i \in ReplanWorkers) ~> (i \in ReplanWorkers /\ Finished(i))

\* C9 witness: one finished re-plan that found no tasks and one that raised,
\* each with its flag-clearing callback run and nothing delivered.
C9_Witness ==
    \E i, j \in ReplanWorkers :
        /\ Finished(i) /\ workers[i].result = "no_tasks"
        /\ Finished(j) /\ workers[j].result = "raise"
        /\ observed[i].cleared = 1 /\ observed[j].cleared = 1

\* C10: in a burst of trigger calls (all made less than one cooldown window
\* after the first of them) at most one call is accepted.
C10_BurstDebounced == burst.accepts <= 1

\* C10 witness: a burst with one accepted call and a rejected one.
C10_Witness == burst.accepts = 1 /\ burst.rejected

\* A request that qualifies: the listing and the capacity analysis return,
\* and a tagged event is listed or a critical warning meets a scheduled task.
Qualifying(listed, cap) ==
    /\ Requested(listed, cap)
    /\ listed.ok
    /\ \/ Tagged(listed.items)
       \/ cap = "critical" /\ scheduled_tasks # {}
    /\ cap # "raise"

\* C11: a qualifying request made 1 s after an accepted one is rejected; a
\* qualifying request made 6 s after an accepted one whose run has finished
\* is accepted, and the two runs are never Running together.
C11_OneAndSixSeconds ==
    [][\A listed \in ListResults, cap \in CapOutcomes :
          (Qualifying(listed, cap) /\ last_replan_time # <<>>) =>
              /\ now - last_replan_time[1] = 1 => Rejected
              /\ (now - last_replan_time[1] = 6 /\ Running = {}) =>
                     /\ Dispatched
                     /\ Cardinality(Running') = 1]_vars

\* C11 witness: the first re-plan was dispatched and completed at time 0, the
\* second was accepted at time 6 and is the only one Running.
C11_Witness ==
    /\ Cardinality(ReplanWorkers) = 2
    /\ completed_at = <<0>>
    /\ last_replan_time = <<6>>
    /\ now = 6
    /\ Cardinality(Running) = 1

\* C12 (as claimed): the UI thread is never inside a call of the optimizer.
C12_OptimizerOffUiThread == ~UiInOptimizer

ShuffleWorkers == {i \in DOMAIN workers : workers[i].kind = "shuffle"}

\* The thread has left shuffle_async, by its end or by an exception.
ShuffleEnded(i) == workers[i].pc \in {"done", "crashed"}

\* C14 (as claimed): a shuffle worker that has ended, its optimizer call
\* raising included, has handed an outcome to the UI thread: the callback
\* showing it is queued or has run.
C14_ShuffleOutcome ==
    \A i \in ShuffleWorkers :
        ShuffleEnded(i) =>
            \/ \E k \in DOMAIN ui_queue :
                   ui_queue[k].op = "handle_shuffle_result"
                       /\ ui_queue[k].run = i
            \/ observed[i].delivered # <<>>

\* Every callback load_client queued has run.
LoaderCallbacksRun ==
    loader.pc = "done"
        /\ \A k \in DOMAIN ui_queue :
               ui_queue[k].op \notin {"loader_status", "loader_print",
                                      "show_loading_dialog",
                                      "close_loading_dialog"}

\* C13 (as claimed): once load_client has ended and its callbacks have run,
\* exactly one of the ready and failure notifications has been delivered on
\* the UI thread, exactly once; and never more than one at any time.
C13_ExactlyOnce ==
    /\ loader.ready + loader.failed <= 1
    /\ LoaderCallbacksRun => loader.ready + loader.failed = 1

\* ------------------------------------------------- the packer's claims
\* The raw interval of the event an entry of the layout stands for.
StartOf(entry) == packer.input[entry.ev].start.t
EndOf(entry) == packer.input[entry.ev].end.t

Packed == packer.pc = "done"

\* Two entries of the layout that were given the same lane.
SameLane(a, b) ==
    a # b /\ packer.layout[a].lane = packer.layout[b].lane

\* C15: at every point of a packing, any two distinct events given the same
\* lane satisfy a.end <= b.start or b.end <= a.start.
C15_LaneSafety ==
    \A a, b \in DOMAIN packer.layout :
        SameLane(a, b) =>
            \/ EndOf(packer.layout[a]) <= StartOf(packer.layout[b])
            \/ EndOf(packer.layout[b]) <= StartOf(packer.layout[a])

\* C15 witness: a finished packing of three events, two of them sharing a
\* lane and the third, which overlaps, in another.
C15_Witness ==
    /\ Packed
    /\ Len(packer.layout) = 3
    /\ \E a, b \in DOMAIN packer.layout : SameLane(a, b)
    /\ Len(packer.lanes) = 2

\* Every event of the input has both stamps, with start before end.
ProperIntervals(input) ==
    \A i \in DOMAIN input :
        /\ input[i].start.k = "iso" /\ input[i].end.k = "iso"
        /\ input[i].start.t < input[i].end.t

\* The sweep-line reference: the most events active at one instant, an event
\* being active from its start up to, not including, its end.
OverlapDepth(input) ==
    LET active(t) == {i \in DOMAIN input :
                         input[i].start.t <= t /\ t < input[i].end.t}
        depths == {Cardinality(active(t)) : t \in Clock}
    IN CHOOSE d \in depths : \A x \in depths : x <= d

\* C16: for events with start < end, the number of lanes opened, which is
\* the lane_count of every entry returned, equals the overlap depth.
C16_LaneMinimality ==
    (Packed /\ ProperIntervals(packer.input)) =>
        /\ Len(packer.lanes) = OverlapDepth(packer.input)
        /\ \A j \in DOMAIN packer.layout :
               packer.layout[j].lane_count = OverlapDepth(packer.input)

\* C16 witness: three proper events packed into two lanes, one lane reused.
C16_Witness ==
    /\ Packed
    /\ ProperIntervals(packer.input)
    /\ Len(packer.input) = 3
    /\ Len(packer.lanes) = 2
    /\ OverlapDepth(packer.input) = 2

\* The events in the order the packer returned them.
OutputOrder == [j \in DOMAIN packer.layout |-> packer.input[packer.layout[j].ev]]

\* C17: the returned order is by start with equal starts in input order, and
\* packing the events again in the returned order gives every event the same
\* lane and the same lane count.
C17_StableIdempotent ==
    Packed =>
        /\ \A p, q \in DOMAIN packer.layout :
               p < q =>
                   \/ StartOf(packer.layout[p]) < StartOf(packer.layout[q])
                   \/ /\ StartOf(packer.layout[p]) = StartOf(packer.layout[q])
                      /\ packer.layout[p].ev < packer.layout[q].ev
        /\ ComputeLanes(OutputOrder) =
               [j \in DOMAIN packer.layout |->
                   [packer.layout[j] EXCEPT !.ev = j]]

\* C17 witness: a finished packing in which two events of equal start and
\* different ends were given different lanes, and the sort moved an event.
C17_Witness ==
    /\ Packed
    /\ \E p, q \in DOMAIN packer.layout :
           /\ p < q
           /\ StartOf(packer.layout[p]) = StartOf(packer.layout[q])
           /\ EndOf(packer.layout[p]) # EndOf(packer.layout[q])
           /\ packer.layout[p].lane # packer.layout[q].lane
    /\ \E j \in DOMAIN packer.layout : packer.layout[j].ev # j

\* Each event starts exactly when the one before it ends, none ends before
\* it starts.
IsChain(input) ==
    /\ \A i \in DOMAIN input :
           /\ input[i].start.k = "iso" /\ input[i].end.k = "iso"
           /\ input[i].start.t <= input[i].end.t
    /\ \A i \in DOMAIN input :
           i > 1 => input[i].start.t = input[i - 1].end.t

\* The item the next pass of the loop places.
NextItem == packer.items[Len(packer.layout) + 1]

C19_DrawnIntervalsDisjoint ==
    Packed =>
        \A a, b \in DOMAIN packer.layout :
            SameLane(a, b) =>
                LET da == DrawnInterval(packer.input[packer.layout[a].ev])
                    db == DrawnInterval(packer.input[packer.layout[b].ev])
                IN da.e <= db.s \/ db.e <= da.s

\* The event has a start and an end timestamp and both parse.
WellStamped(ev) == ev.start.k = "iso" /\ ev.end.k = "iso"

C21_FailedCallAborts ==
    [][provider_errors' # provider_errors => Rejected]_vars

\* C21 witness: an error of a failed provider call was shown while the
\* program is idle outside the cooldown with a scheduled task to replan,
\* and no re-plan was ever dispatched.
C21_Witness ==
    /\ provider_errors
    /\ ui = "idle"
    /\ scheduled_tasks # {}
    /\ ~is_replanning
    /\ last_replan_time = <<>>
    /\ workers = <<>>

\* C22: the coordinator has no terminal state: whenever a re-plan is Running
\* (the flag is set), the flag is eventually cleared, whatever the worker's
\* outcome, given that the optimizer call returns or raises and the UI
\* thread keeps running its queued callbacks.
C22_RunningLeadsToIdle == is_replanning ~> ~is_replanning

\* C22 witness: Idle again after two re-plans have finished, one that
\* returned success and one that returned a failure status.
C22_Witness ==
    /\ ~is_replanning
    /\ \E i, j \in ReplanWorkers :
           /\ Finished(i) /\ workers[i].result = "success"
           /\ Finished(j) /\ workers[j].result = "error"

\* The events of the example: A 09:00-10:00, B 09:30-10:30, C 10:00-11:00.
ExampleA == [start |-> Iso(0), end |-> Iso(2)]
ExampleB == [start |-> Iso(1), end |-> Iso(3)]
ExampleC == [start |-> Iso(2), end |-> Iso(4)]

\* The lane and lane count the finished run gave to the event ev of its
\* input.
LaneOf(ev) ==
    {<<packer.layout[j].lane, packer.layout[j].lane_count>> :
        j \in {k \in DOMAIN packer.layout :
                  packer.input[packer.layout[k].ev] = ev}}

\* C23: greedy earliest fit: each event, taken in start order, goes to the
\* lowest-index lane whose recorded end is not after its start, and a new
\* lane with the next index is opened only when no lane qualifies; A, B and
\* C of the example, in any input order, get lanes 0, 1, 0 and lane count 2.
C23_GreedyEarliestFit ==
    /\ []((Packed /\ Len(packer.input) = 3
             /\ {packer.input[i] : i \in 1..3} =
                    {ExampleA, ExampleB, ExampleC}) =>
              /\ LaneOf(ExampleA) = {<<0, 2>>}
              /\ LaneOf(ExampleB) = {<<1, 2>>}
              /\ LaneOf(ExampleC) = {<<0, 2>>})
    /\ [][Len(packer'.layout) = Len(packer.layout) + 1 =>
              LET item == packer.items[Len(packer.layout) + 1]
                  new  == packer'.layout[Len(packer'.layout)]
                  fits == {i \in 1..Len(packer.lanes) :
                              packer.lanes[i] <= item.s}
              IN  IF fits # {}
                  THEN /\ new.lane + 1 \in fits
                       /\ \A j \in fits : new.lane + 1 <= j
                       /\ Len(packer'.lanes) = Len(packer.lanes)
                  ELSE /\ new.lane = Len(packer.lanes)
                       /\ Len(packer'.lanes) = Len(packer.lanes) + 1]_vars

\* C23 witness: the example, given as A, B, C, has been packed.
C23_Witness ==
    /\ Packed
    /\ packer.input = <<ExampleA, ExampleB, ExampleC>>
    /\ Len(packer.layout) = 3

\* The lane indices a finished run handed out.
LanesUsed == {packer.layout[j].lane : j \in DOMAIN packer.layout}

\* C24: every entry of one finished run carries the same lane count, which
\* is the number of distinct lanes opened; every lane index lies in
\* 0..count-1 and every index of that range is used.
C24_UniformLaneCount ==
    Packed =>
        \A j \in DOMAIN packer.layout :
            /\ packer.layout[j].lane_count = Cardinality(LanesUsed)
            /\ packer.layout[j].lane_count = Len(packer.lanes)
            /\ packer.layout[j].lane \in 0..(packer.layout[j].lane_count - 1)
            /\ LanesUsed = 0..(packer.layout[j].lane_count - 1)

\* C24 witness: a finished run of three events in two lanes.
C24_Witness ==
    /\ Packed
    /\ Len(packer.layout) = 3
    /\ Cardinality(LanesUsed) = 2

\* C25: the last-replan timestamp only moves forward, and the one step that
\* writes it is the acceptance step, which sets the flag and dispatches the
\* worker: no rejection, completion, failure or refresh step changes it.
C25_TimestampForwardOnly ==
    [][last_replan_time' # last_replan_time =>
          /\ last_replan_time' = <<now>>
          /\ last_replan_time # <<>> => last_replan_time[1] < now
          /\ ~is_replanning /\ is_replanning'
          /\ workers' = Append(workers, NewWorker("replan"))]_vars

\* C25 witness: the timestamp has been written twice, by the acceptance of
\* two re-plans, and the first of them has finished with a failure status.
C25_Witness ==
    /\ last_replan_time # <<>>
    /\ last_replan_time[1] >= replan_cooldown
    /\ Cardinality(ReplanWorkers) = 2
    /\ workers[1].result = "error"
    /\ provider_errors

\* A request that is not to be accepted: a re-plan is Running, the cooldown
\* has not elapsed, nothing is there to replan, no condition qualifies, or
\* the capacity analysis raises.
NotAccepting(listed, cap) ==
    \/ is_replanning
    \/ WithinCooldownWindow
    \/ ~Tagged(listed.items) /\ scheduled_tasks = {}
    \/ ~Tagged(listed.items) /\ cap # "critical"
    \/ cap = "raise"

\* C27: a request that is not accepted changes nothing: the flag and the
\* timestamp keep their values and no worker thread is started.
C27_RejectedChangesNothing ==
    [][\A listed \in ListResults, cap \in CapOutcomes :
          (Requested(listed, cap) /\ listed.ok /\ NotAccepting(listed, cap))
              => Rejected]_vars

\* C27 witness: one second after a dispatch, with the re-plan still inside
\* the optimizer, the stored listing has no tagged event and no task is
\* scheduled: a request made in that state is rejected.
C27_Witness ==
    /\ is_replanning
    /\ last_replan_time = <<0>>
    /\ now = 1
    /\ Len(workers) = 1 /\ workers[1].pc = "call"
    /\ events = <<FALSE>>
    /\ scheduled_tasks = {}

\* A step of a background worker: a thread started earlier moves on.
WorkerMoves ==
    \E i \in DOMAIN workers : i \in DOMAIN workers' /\ workers'[i] # workers[i]

\* C26: a step of a background worker (replan_async, shuffle_async) writes
\* neither the flag, nor the timestamp, nor the event list: it only queues
\* callbacks for the UI thread, where every such write happens.
C26_WorkersWriteNothing ==
    [][WorkerMoves =>
          /\ UNCHANGED <<is_replanning, last_replan_time, events>>
          /\ Len(ui_queue') >= Len(ui_queue)
          /\ SubSeq(ui_queue', 1, Len(ui_queue)) = ui_queue]_vars

\* C26 witness: a replan worker that raised and a shuffle worker that
\* returned have both ended; the flag is still set, its clearing callback
\* waiting in the queue of the UI thread.
C26_Witness ==
    /\ is_replanning
    /\ \E i, j \in DOMAIN workers :
           /\ workers[i].kind = "replan" /\ workers[i].pc = "done"
           /\ workers[i].result = "raise"
           /\ workers[j].kind = "shuffle" /\ workers[j].pc = "done"
           /\ ClearQueued(i)

\* The steps of run_update that ran so far, with their outcomes.
Steps == updater.trace

\* The steps that come before apply_update in a run that reaches it.
BeforeApply ==
    {<<"check_newer", how, "backup_ok", "download_ok">> :
        how \in {"confirmed", "auto"}}

\* C28: apply_update runs only after the version check found a newer
\* release, the user confirmed (or the run is in auto mode), the backup
\* succeeded and the download succeeded, in that order; a failed
\* apply_update is followed at once by restore_backup, given the backup
\* taken in the same run; CURRENT_VERSION is rewritten only after
\* apply_update succeeded.
C28_NoUpdateWithoutBackup ==
    /\ \A k \in DOMAIN Steps :
           Steps[k] \in {"apply_ok", "apply_failed"} =>
               /\ SubSeq(Steps, 1, k - 1) \in BeforeApply
               /\ Steps[2] = "auto" <=> updater.auto
    /\ \A k \in DOMAIN Steps :
           Steps[k] = "apply_failed" =>
               IF k = Len(Steps) THEN updater.pc = "restore"
               ELSE /\ Steps[k + 1] \in {"restore_ok", "restore_failed"}
                    /\ updater.restored_from = "this"
    /\ updater.version # "current" =>
           /\ Len(Steps) = 6
           /\ Steps[5] = "apply_ok"
           /\ Steps[6] = "version_written"

\* C28 witness: a run that replaced the backup of an earlier run, failed in
\* apply_update with the package's updater.py already copied, and restored
\* from its own backup.
C28_Witness ==
    /\ updater.pc = "done"
    /\ Steps = <<"check_newer", "confirmed", "backup_ok", "download_ok",
                 "apply_failed", "restore_ok">>
    /\ updater.restored_from = "this"
    /\ updater.user_dir[UpdaterPy] = "old"
    /\ updater.user_dir[TempUpdate] = "new"

\* C29 (as claimed): when the update failed after the backup and
\* restore_backup succeeded, the user directory holds what it held before
\* the run, the user data (*.db, .apollo) included.  The working entries
\* temp_update and update.zip and the byte-code caches are left out of the
\* comparison.
C29_BackupRestoreRoundTrip ==
    (updater.pc = "done" /\ Steps # <<>>
        /\ Steps[Len(Steps)] = "restore_ok") =>
        \A n \in {UpdaterPy, ApolloDb, SpotifyCookies, DotApollo} :
            updater.user_dir[n] = updater.before[n]

\* C30 (as claimed): apply_update neither overwrites nor removes an entry of
\* the user directory that matches the preserve list, even when the package
\* carries an entry of the same name.
C30_ApplyPreservesUserData ==
    [][updater.pc = "apply" =>
          \A n \in Entries :
              (Matches(n, preserve_patterns)
                  /\ updater.user_dir[n] # "absent") =>
                  updater'.user_dir[n] = updater.user_dir[n]]_vars

====
